---------------------------- MODULE Spec2Model ----------------------------
(***************************************************************************)
(* NWN Education Server (src/server.js): the Page-Access Gate, the         *)
(* authentication API and the admin API over the users / page_access       *)
(* tables, as a state machine.                                             *)
(*                                                                         *)
(* Conventions                                                             *)
(*  - a string the code inspects character by character (username,        *)
(*    password) is a tuple of one-character strings;                       *)
(*  - a request path is the tuple of its segments: "/" is <<>>,            *)
(*    "/index.html" is <<"index.html">>, "/api/auth/me" is                 *)
(*    <<"api","auth","me">>; a trailing "" segment is a trailing slash;    *)
(*  - a token (the JWT string) is a record of its payload and of what its  *)
(*    signature is worth: sig = "valid" for one signed with JWT_SECRET;    *)
(*  - time is counted in days.                                             *)
(***************************************************************************)
EXTENDS Integers, Sequences, FiniteSets, TLC

VARIABLES users, nextId, reg, page_access, now, wallet, inflight, resp, s3Client

vars == <<users, nextId, reg, page_access, now, wallet, inflight, resp, s3Client>>

---------------------------------------------------------------------------
(* Bounds of the model *)

\* ids the users table hands out: 1 .. MaxUsers
MaxUsers == 3
\* the clock runs from 0 to MaxNow days, TickDays at a time
MaxNow == 30
TickDays == 30
\* requests that can be suspended at an await at the same time
Slots == {"r1", "r2"}

---------------------------------------------------------------------------
(* Program constants *)

\* jwt.sign(..., { expiresIn: '30d' })
ExpiresIn == 30
\* decoded.role_id !== 1
AdminRole == 1
\* INSERT INTO users (...) VALUES ($1, $2, $3, 4)
DefaultRole == 4
\* username.length < 3, password.length < 4
MinUsername == 3
MinPassword == 4

\* [1,2,3,4].includes(role_id); the rows of the roles table
RoleIds == {1, 2, 3, 4}

FILE_TO_SLUG ==
  ( <<"index.html">>       :> "archetypes" ) @@
  ( <<"sales.html">>       :> "sales" ) @@
  ( <<"di.html">>          :> "di" ) @@
  ( <<"reglament.html">>   :> "reglament" ) @@
  ( <<"checklists.html">>  :> "checklists" ) @@
  ( <<"brands.html">>      :> "brands" ) @@
  ( <<"tech.html">>        :> "tech" ) @@
  ( <<"methodology.html">> :> "methodology" )

PUBLIC_PAGES ==
  { <<"login.html">>, <<"register.html">>, <<"install.html">>, <<"manifest.json">>,
    <<"sw.js">>, <<"icon-192.png">>, <<"icon-512.png">>, <<"qr-install.svg">>,
    <<"nwn-logo.png">>, <<"health">>, <<"favicon.ico">> }

---------------------------------------------------------------------------
(* Tokens *)

\* JS null, as getToken returns it
NullToken == [id |-> 0, username |-> <<>>, role_id |-> 0, exp |-> 0, sig |-> "null"]
\* the empty string, as 'Bearer '.slice(7) gives it
EmptyToken == [id |-> 0, username |-> <<>>, role_id |-> 0, exp |-> 0, sig |-> "empty"]
\* a string that is no JWT
MalformedToken == [id |-> 0, username |-> <<>>, role_id |-> 0, exp |-> 0, sig |-> "malformed"]
\* a JWT claiming the administrator, signed with another secret
ForgedToken ==
  [id |-> 1, username |-> <<"a","d","m","i","n">>, role_id |-> 1,
   exp |-> MaxNow + ExpiresIn + 1, sig |-> "forged"]

\* what verifyToken returns for a token it rejects (JS null)
NullClaims == [id |-> 0, username |-> <<>>, role_id |-> 0]

\* !token
IsFalsy(token) == token.sig \in {"null", "empty"}

generateToken(user, clock) ==
  [id |-> user.id, username |-> user.username, role_id |-> user.role_id,
   exp |-> clock + ExpiresIn, sig |-> "valid"]

\* verifyToken without the check of the expiry
verifyToken_NoExpiry(token, clock) ==
  IF token.sig = "valid"
  THEN [id |-> token.id, username |-> token.username, role_id |-> token.role_id]
  ELSE NullClaims

\* jwt.verify throws on a bad signature, a malformed string and once
\* clock >= exp; the catch turns every throw into null
verifyToken(token, clock) ==
  IF token.sig = "valid" /\ clock < token.exp
  THEN [id |-> token.id, username |-> token.username, role_id |-> token.role_id]
  ELSE NullClaims

\* the cookie names the unanchored /nwn_token=([^;]+)/ matches
CookieNameMatches(name) == name \in {"nwn_token", "xnwn_token"}

\* cookie.match(/nwn_token=([^;]+)/): the first cookie whose name ends in
\* nwn_token and whose value is not empty
CookieMatch(cookie) ==
  LET hits == { i \in 1..Len(cookie) :
                  CookieNameMatches(cookie[i].name) /\ cookie[i].value.sig # "empty" }
  IN IF hits = {} THEN NullToken
     ELSE cookie[CHOOSE i \in hits : \A j \in hits : i <= j].value

\* getToken with the cookie looked at before the Authorization header
getToken_CookieFirst(req) ==
  IF CookieMatch(req.cookie) # NullToken THEN CookieMatch(req.cookie)
  ELSE IF req.auth.scheme = "Bearer" THEN req.auth.token
  ELSE NullToken

\* req = [path, auth, cookie]; auth = [scheme, token], scheme "none" when the
\* header is absent; cookie = the Cookie header as a tuple of [name, value],
\* <<>> when absent.  req.cookies is never set (no cookie parser is mounted).
getToken(req) ==
  IF req.auth.scheme = "Bearer" THEN req.auth.token
  ELSE CookieMatch(req.cookie)

---------------------------------------------------------------------------
(* The Page-Access Gate *)

Undefined == "undefined"

FileToSlug(urlPath) ==
  IF urlPath \in DOMAIN FILE_TO_SLUG THEN FILE_TO_SLUG[urlPath] ELSE Undefined

\* urlPath.startsWith('/api/auth/')
StartsWithApiAuth(urlPath) ==
  Len(urlPath) >= 3 /\ urlPath[1] = "api" /\ urlPath[2] = "auth"

\* the pages table: id -> slug
pages ==
  ( 1 :> "archetypes" ) @@ ( 2 :> "sales" ) @@ ( 3 :> "di" ) @@ ( 4 :> "reglament" ) @@
  ( 5 :> "checklists" ) @@ ( 6 :> "brands" ) @@ ( 7 :> "tech" ) @@ ( 8 :> "methodology" )

\* SELECT pa.has_access FROM page_access pa JOIN pages p ON p.id = pa.page_id
\* WHERE pa.role_id = $1 AND p.slug = $2
\* page_access maps <<role_id, page_id>> to has_access, one row per pair
AccessRows(access, role_id, slug) ==
  { k \in DOMAIN access : k[1] = role_id /\ k[2] \in DOMAIN pages /\ pages[k[2]] = slug }

GateResult(outcome, log, token, claims, query) ==
  [outcome |-> outcome, log |-> log, token |-> token, claims |-> claims, query |-> query]

\* GateExempt without the exemption of the paths that have no slug
GateExempt_PublicOnly(urlPath) ==
  \/ urlPath \in PUBLIC_PAGES \/ StartsWithApiAuth(urlPath)
  \/ urlPath = <<"audio-url">> \/ urlPath = <<"health">>

\* the requests authMiddleware lets through before it looks at the token:
\* public assets, the authentication API, the API endpoints, and every path
\* FILE_TO_SLUG has no slug for
GateExempt(urlPath) ==
  \/ urlPath \in PUBLIC_PAGES \/ StartsWithApiAuth(urlPath)
  \/ urlPath = <<"audio-url">> \/ urlPath = <<"health">>
  \/ FileToSlug(urlPath) = Undefined

\* GateStoreError failing closed
GateStoreError_Closed(token, user) ==
  GateResult("forbidden", <<"getToken", "verifyToken", "query">>, token, user, "error")

\* the catch of the access check: the error is logged and next() runs
GateStoreError(token, user) ==
  GateResult("next", <<"getToken", "verifyToken", "query">>, token, user, "error")

\* GateDecision sending a caller without a grant to the login page
GateDecision_Redirect(access, rows, token, user) ==
  IF rows = {} \/ ~ access[CHOOSE k \in rows : TRUE]
    THEN GateResult("redirect", <<"getToken", "verifyToken", "query">>, token, user, "deny")
  ELSE GateResult("next", <<"getToken", "verifyToken", "query">>, token, user, "grant")

\* result.rows.length === 0 || !result.rows[0].has_access: 403, else next()
GateDecision(access, rows, token, user) ==
  IF rows = {}
    THEN GateResult("forbidden", <<"getToken", "verifyToken", "query">>, token, user, "norow")
  ELSE IF ~ access[CHOOSE k \in rows : TRUE]
    THEN GateResult("forbidden", <<"getToken", "verifyToken", "query">>, token, user, "deny")
  ELSE GateResult("next", <<"getToken", "verifyToken", "query">>, token, user, "grant")

\* authMiddleware: outcome is "next", "redirect" (to /login.html) or
\* "forbidden" (403); log lists, in order, what the Gate did with the token
\* and the policy store; dbFails: pool.query rejects
authMiddleware(req, clock, access, dbFails) ==
  LET urlPath == req.path
      slug    == FileToSlug(urlPath)
      token   == getToken(req)
      user    == verifyToken(token, clock)
      rows    == AccessRows(access, user.role_id, slug)
  IN IF GateExempt(urlPath)
       THEN GateResult("next", <<>>, NullToken, NullClaims, "none")
     ELSE IF IsFalsy(token)
       THEN GateResult("redirect", <<"getToken">>, token, NullClaims, "none")
     ELSE IF user = NullClaims
       THEN GateResult("redirect", <<"getToken", "verifyToken">>, token, NullClaims, "none")
     ELSE IF dbFails
       THEN GateStoreError(token, user)
     ELSE GateDecision(access, rows, token, user)

\* the files of the static root that the model's requests can name
StaticFiles ==
  { "index.html", "sales.html", "di.html", "reglament.html", "checklists.html",
    "brands.html", "tech.html", "methodology.html", "login.html", "styles.css" }

NoFile == "none"

\* send's decodeURIComponent on a path segment
DecodeSegment(s) ==
  CASE s = "%74ech.html" -> "tech.html"
    [] s = "%73ales.html" -> "sales.html"
    [] OTHER -> s

\* express.static(__dirname): the path is percent-decoded; a path that names
\* the root directory is answered with its index.html; a file that does not
\* exist, or a trailing slash after a file, falls through
StaticResolve(urlPath) ==
  LET decoded == [i \in 1..Len(urlPath) |-> DecodeSegment(urlPath[i])]
  IN IF decoded = <<>> THEN "index.html"
     ELSE IF Len(decoded) = 1 /\ decoded[1] \in StaticFiles THEN decoded[1]
     ELSE NoFile

---------------------------------------------------------------------------
(* Strings, password hashing *)

Lower(c) ==
  CASE c = "A" -> "a" [] c = "B" -> "b" [] c = "O" -> "o" [] c = "M" -> "m"
    [] c = "Y" -> "y" [] c = "P" -> "p" [] c = "S" -> "s" [] OTHER -> c

\* String.prototype.toLowerCase
toLowerCase(s) == [i \in 1..Len(s) |-> Lower(s[i])]

\* bcrypt.hash(password, 10): the salt is left out, bcrypt.compare ignores it
bcryptHash(password) == [bcrypt |-> password]

\* bcrypt.compare(password, hash)
bcryptCompare(password, hash) == hash.bcrypt = password

---------------------------------------------------------------------------
(* The users table and the authentication API *)

\* the value the users table gives is_active when an INSERT names none
DefaultIsActive == TRUE

\* a row of users as an INSERT of (username, password, role_id) leaves it;
\* users maps the id (a serial: never handed out twice) to the row
UserRow(username, hash, role_id) ==
  [username |-> username, password |-> hash, role_id |-> role_id,
   is_active |-> DefaultIsActive]

\* the users table rejects a second row with the same username
UniqueViolation(us, username) == \E id \in DOMAIN us : us[id].username = username

\* {status, error, token}: what a handler of the authentication API answers
ApiAnswer(status, error, token) == [status |-> status, error |-> error, token |-> token]

\* error bodies, by the text of the source:
\*   "enter_login_and_password"  'Введите логин и пароль'
\*   "login_min_3"               'Логин минимум 3 символа'
\*   "password_min_4"            'Пароль минимум 4 символа'
\*   "login_taken"               'Этот логин уже занят'
\*   "registration_error"        'Ошибка регистрации'
\*   "wrong_login_or_password"   'Неверный логин или пароль'
\*   "login_error"               'Ошибка входа: ' + err.message

\* SELECT id FROM users WHERE username = $1, with username.toLowerCase()
RegisterLookupRows(us, username) ==
  { id \in DOMAIN us : us[id].username = toLowerCase(username) }

\* POST /api/auth/register up to and including its lookup: the answer, or
\* status 0 when the handler goes on to hash and insert
RegisterCheck(us, body, dbFails) ==
  IF body.username = <<>> \/ body.password = <<>>
    THEN ApiAnswer(400, "enter_login_and_password", NullToken)
  ELSE IF Len(body.username) < MinUsername
    THEN ApiAnswer(400, "login_min_3", NullToken)
  ELSE IF Len(body.password) < MinPassword
    THEN ApiAnswer(400, "password_min_4", NullToken)
  ELSE IF dbFails
    THEN ApiAnswer(500, "registration_error", NullToken)
  ELSE IF RegisterLookupRows(us, body.username) # {}
    THEN ApiAnswer(400, "login_taken", NullToken)
  ELSE ApiAnswer(0, "", NullToken)

\* RegisterRow storing the username as typed
RegisterRow_AsTyped(body) ==
  UserRow(body.username, bcryptHash(body.password), DefaultRole)

\* the row INSERT INTO users (username, password, display_name, role_id)
\* VALUES ($1, $2, $3, 4) writes; display_name is left out of the model
RegisterRow(body) ==
  UserRow(toLowerCase(body.username), bcryptHash(body.password), DefaultRole)

\* LoginRows comparing the username as typed
LoginRows_AsTyped(us, username) ==
  { id \in DOMAIN us : /\ us[id].username = username
                       /\ us[id].is_active
                       /\ us[id].role_id \in RoleIds }

\* SELECT u.*, ... FROM users u JOIN roles r ON r.id = u.role_id
\* WHERE u.username = $1 AND u.is_active = true, with username.toLowerCase()
LoginRows(us, username) ==
  { id \in DOMAIN us : /\ us[id].username = toLowerCase(username)
                       /\ us[id].is_active
                       /\ us[id].role_id \in RoleIds }

\* LoginResponse telling an unknown or inactive user from a wrong password
LoginResponse_Telling(us, body, clock, dbFails) ==
  LET rows == LoginRows(us, body.username)
      id   == CHOOSE i \in rows : \A j \in rows : i <= j
  IN IF body.username = <<>> \/ body.password = <<>>
       THEN ApiAnswer(400, "enter_login_and_password", NullToken)
     ELSE IF dbFails
       THEN ApiAnswer(500, "login_error", NullToken)
     ELSE IF rows = {}
       THEN ApiAnswer(401, "user_not_found", NullToken)
     ELSE IF ~ bcryptCompare(body.password, us[id].password)
       THEN ApiAnswer(401, "wrong_login_or_password", NullToken)
     ELSE ApiAnswer(200, "",
            generateToken([id |-> id, username |-> us[id].username,
                           role_id |-> us[id].role_id], clock))

\* POST /api/auth/login
LoginResponse(us, body, clock, dbFails) ==
  LET rows == LoginRows(us, body.username)
      id   == CHOOSE i \in rows : \A j \in rows : i <= j
  IN IF body.username = <<>> \/ body.password = <<>>
       THEN ApiAnswer(400, "enter_login_and_password", NullToken)
     ELSE IF dbFails
       THEN ApiAnswer(500, "login_error", NullToken)
     ELSE IF rows = {}
       THEN ApiAnswer(401, "wrong_login_or_password", NullToken)
     ELSE IF ~ bcryptCompare(body.password, us[id].password)
       THEN ApiAnswer(401, "wrong_login_or_password", NullToken)
     ELSE ApiAnswer(200, "",
            generateToken([id |-> id, username |-> us[id].username,
                           role_id |-> us[id].role_id], clock))

\* SELECT p.slug, ..., pa.has_access FROM page_access pa JOIN pages p
\* ON p.id = pa.page_id WHERE pa.role_id = $1: the rows as slug -> has_access
PagesOf(access, role_id) ==
  { <<pages[k[2]], access[k]>> : k \in { x \in DOMAIN access : x[1] = role_id /\ x[2] \in DOMAIN pages } }

\* MeRows without the is_active condition
MeRows_AnyUser(us, id) == { i \in DOMAIN us : i = id }

\* SELECT u.id, ..., u.role_id FROM users u JOIN roles r ON r.id = u.role_id
\* WHERE u.id = $1 AND u.is_active = true
MeRows(us, id) ==
  { i \in DOMAIN us : i = id /\ us[i].is_active /\ us[i].role_id \in RoleIds }

\* requireAdmin letting every verified token through
requireAdmin_AnyRole(req, clock) ==
  LET token   == getToken(req)
      decoded == verifyToken(token, clock)
  IN IF IsFalsy(token) THEN 401
     ELSE IF decoded = NullClaims THEN 403
     ELSE 0

\* requireAdmin: 401, 403 or 0 for next()
requireAdmin(req, clock) ==
  LET token   == getToken(req)
      decoded == verifyToken(token, clock)
  IN IF IsFalsy(token) THEN 401
     ELSE IF decoded = NullClaims \/ decoded.role_id # AdminRole THEN 403
     ELSE 0

---------------------------------------------------------------------------
(* State *)

Idle == [pc |-> "idle"]

NoResp == [op |-> "none"]

\* reg (history): what each stored user registered with, and whether an
\* admin statement has touched the row since
RegEntry(username, password, touched) ==
  [username |-> username, password |-> password, touched |-> touched]

AdminName == <<"a","d","m","i","n">>
AdminPassword == <<"r","o","o","t">>
Bob == <<"b","o","b">>
Amy == <<"a","m","y">>
Pass == <<"p","a","s","s">>

AllIds == 1..MaxUsers

\* a request with the token in the Authorization header and no cookie
BearerReq(path, token) ==
  [path |-> path, auth |-> [scheme |-> "Bearer", token |-> token], cookie |-> <<>>]

\* the username's lower-cased form is stored
Stored(us, username) ==
  \E id \in DOMAIN us : toLowerCase(us[id].username) = toLowerCase(username)

\* every request runs authMiddleware first (app.use): the API paths have no
\* policy slug
GatePasses(req) == authMiddleware(req, now, page_access, FALSE).outcome = "next"

---------------------------------------------------------------------------
(* Actions: one per handler, one per statement where a handler awaits the
   store twice *)

\* time passes
Tick ==
  /\ now + TickDays <= MaxNow
  /\ now' = now + TickDays
  /\ UNCHANGED <<users, nextId, reg, page_access, wallet, inflight, resp, s3Client>>

\* GET of a path that no route handles: authMiddleware, then express.static
Gate(req, dbFails) ==
  LET g == authMiddleware(req, now, page_access, dbFails)
  IN /\ resp' = [op |-> "gate", req |-> req, at |-> now, dbFails |-> dbFails, gate |-> g,
                 served |-> IF g.outcome = "next" THEN StaticResolve(req.path) ELSE NoFile,
                 storedRole |-> IF g.claims.id \in DOMAIN users
                                THEN users[g.claims.id].role_id ELSE 0]
     /\ UNCHANGED <<users, nextId, reg, page_access, now, wallet, inflight, s3Client>>

RegisterPath == <<"api", "auth", "register">>
LoginPath == <<"api", "auth", "login">>
MePath == <<"api", "auth", "me">>
AdminPath == <<"api", "admin">>

NoAuthReq(path) ==
  [path |-> path, auth |-> [scheme |-> "none", token |-> NullToken], cookie |-> <<>>]

RegisterResp(body, dbFails, res, id, lookupTaken, insertTaken) ==
  [op |-> "register", body |-> body, dbFails |-> dbFails, res |-> res, id |-> id,
   lookupTaken |-> lookupTaken, insertTaken |-> insertTaken]

\* POST /api/auth/register, up to the await of the insert
RegisterStart(slot, body, dbFails) ==
  LET res == RegisterCheck(users, body, dbFails)
  IN /\ inflight[slot] = Idle
     /\ nextId + Cardinality({ s \in Slots : inflight[s].pc = "register" }) <= MaxUsers
     /\ GatePasses(NoAuthReq(RegisterPath))
     /\ IF res.status = 0
          THEN /\ inflight' = [inflight EXCEPT ![slot] = [pc |-> "register", body |-> body]]
               /\ UNCHANGED resp
          ELSE /\ resp' = RegisterResp(body, dbFails, res, 0, Stored(users, body.username), FALSE)
               /\ UNCHANGED inflight
     /\ UNCHANGED <<users, nextId, reg, page_access, now, wallet, s3Client>>

\* POST /api/auth/register, from the insert on
RegisterInsert(slot, dbFails, keep) ==
  LET body  == inflight[slot].body
      row   == RegisterRow(body)
      token == generateToken([id |-> nextId, username |-> row.username,
                              role_id |-> row.role_id], now)
  IN /\ inflight[slot].pc = "register"
     /\ inflight' = [inflight EXCEPT ![slot] = Idle]
     /\ IF dbFails \/ UniqueViolation(users, row.username)
          THEN /\ resp' = RegisterResp(body, dbFails,
                                       ApiAnswer(500, "registration_error", NullToken),
                                       0, FALSE, Stored(users, body.username))
               /\ UNCHANGED <<users, nextId, reg, wallet>>
          ELSE /\ users' = [id \in DOMAIN users \cup {nextId} |->
                              IF id = nextId THEN row ELSE users[id]]
               /\ reg' = [id \in DOMAIN users \cup {nextId} |->
                            IF id = nextId
                            THEN RegEntry(body.username, body.password, FALSE)
                            ELSE reg[id]]
               /\ nextId' = nextId + 1
               /\ wallet' = IF keep THEN [wallet EXCEPT ![nextId] = token] ELSE wallet
               /\ resp' = RegisterResp(body, dbFails, ApiAnswer(200, "", token), nextId,
                                       FALSE, Stored(users, body.username))
     /\ UNCHANGED <<page_access, now, s3Client>>

\* which of the cases of a login the request is
LoginCase(us, body) ==
  LET named == { id \in DOMAIN us : toLowerCase(us[id].username) = toLowerCase(body.username) }
  IN IF named = {} THEN "unknown"
     ELSE IF \A id \in named : ~ us[id].is_active THEN "inactive"
     ELSE IF \A id \in named : us[id].password # bcryptHash(body.password) THEN "wrong_password"
     ELSE "ok"

\* POST /api/auth/login; keep: the client stores the token it is given
Login(body, dbFails, keep) ==
  LET res == LoginResponse(users, body, now, dbFails)
  IN /\ GatePasses(NoAuthReq(LoginPath))
     /\ resp' = [op |-> "login", body |-> body, dbFails |-> dbFails, res |-> res,
                 case |-> LoginCase(users, body)]
     /\ wallet' = IF res.status = 200 /\ keep
                  THEN [wallet EXCEPT ![res.token.id] = res.token] ELSE wallet
     /\ UNCHANGED <<users, nextId, reg, page_access, now, inflight, s3Client>>

MeResp(token, at, status, error, role_id, pgs, existsActive, storedRole) ==
  [op |-> "me", token |-> token, at |-> at, status |-> status, error |-> error,
   role_id |-> role_id, pages |-> pgs,
   existsActive |-> existsActive, storedRole |-> storedRole]

\* GET /api/auth/me, up to the await of the pages query
MeStart(slot, req, dbFails) ==
  LET token   == getToken(req)
      decoded == verifyToken(token, now)
      rows    == MeRows(users, decoded.id)
      live    == decoded.id \in DOMAIN users /\ users[decoded.id].is_active
      stored  == IF decoded.id \in DOMAIN users THEN users[decoded.id].role_id ELSE 0
  IN /\ inflight[slot] = Idle
     /\ GatePasses(req)
     /\ IF IsFalsy(token)
          THEN /\ resp' = MeResp(token, now, 401, "Not authenticated", 0, {}, FALSE, 0)
               /\ UNCHANGED inflight
        ELSE IF decoded = NullClaims
          THEN /\ resp' = MeResp(token, now, 401, "Invalid token", 0, {}, FALSE, 0)
               /\ UNCHANGED inflight
        ELSE IF dbFails
          THEN /\ resp' = MeResp(token, now, 500, "Server error", 0, {}, live, stored)
               /\ UNCHANGED inflight
        ELSE IF rows = {}
          THEN /\ resp' = MeResp(token, now, 401, "User not found", 0, {}, live, stored)
               /\ UNCHANGED inflight
        ELSE /\ inflight' = [inflight EXCEPT ![slot] =
                   [pc |-> "me", token |-> token, at |-> now,
                    role_id |-> users[CHOOSE i \in rows : TRUE].role_id,
                    existsActive |-> live, storedRole |-> stored]]
             /\ UNCHANGED resp
     /\ UNCHANGED <<users, nextId, reg, page_access, now, wallet, s3Client>>

\* GET /api/auth/me, from the pages query on
MeFinish(slot, dbFails) ==
  LET r == inflight[slot]
  IN /\ r.pc = "me"
     /\ inflight' = [inflight EXCEPT ![slot] = Idle]
     /\ resp' = IF dbFails
                THEN MeResp(r.token, r.at, 500, "Server error", 0, {}, r.existsActive, r.storedRole)
                ELSE MeResp(r.token, r.at, 200, "", r.role_id, PagesOf(page_access, r.role_id),
                            r.existsActive, r.storedRole)
     /\ UNCHANGED <<users, nextId, reg, page_access, now, wallet, s3Client>>

\* the response of an admin route; ran (history): the handler reached its
\* pool.query; detail: what the statement was given or found
AdminResp(op, req, status, id, ran, detail) ==
  [op |-> op, req |-> req, at |-> now, status |-> status, id |-> id, ran |-> ran,
   detail |-> detail]

NoDetail == [none |-> TRUE]

Touch(id) == IF id \in DOMAIN reg THEN [reg EXCEPT ![id].touched = TRUE] ELSE reg

\* GET /api/admin/users: SELECT ... FROM users u JOIN roles r ON r.id = u.role_id
AdminListUsers(req, dbFails) ==
  LET guard == requireAdmin(req, now)
      rows  == { [id |-> i, username |-> users[i].username, role_id |-> users[i].role_id,
                  is_active |-> users[i].is_active] :
                 i \in { j \in DOMAIN users : users[j].role_id \in RoleIds } }
  IN /\ GatePasses(req)
     /\ resp' = IF guard # 0 THEN AdminResp("admin_users", req, guard, 0, FALSE, NoDetail)
                ELSE IF dbFails THEN AdminResp("admin_users", req, 500, 0, TRUE, NoDetail)
                ELSE AdminResp("admin_users", req, 200, 0, TRUE, [rows |-> rows])
     /\ UNCHANGED <<users, nextId, reg, page_access, now, wallet, inflight, s3Client>>

\* GET /api/admin/roles: SELECT * FROM roles ORDER BY id
AdminListRoles(req, dbFails) ==
  LET guard == requireAdmin(req, now)
  IN /\ GatePasses(req)
     /\ resp' = IF guard # 0 THEN AdminResp("admin_roles", req, guard, 0, FALSE, NoDetail)
                ELSE IF dbFails THEN AdminResp("admin_roles", req, 500, 0, TRUE, NoDetail)
                ELSE AdminResp("admin_roles", req, 200, 0, TRUE, [rows |-> RoleIds])
     /\ UNCHANGED <<users, nextId, reg, page_access, now, wallet, inflight, s3Client>>

\* GET /api/admin/access: SELECT ... FROM page_access pa JOIN pages p
\* ON p.id = pa.page_id JOIN roles r ON r.id = pa.role_id
AdminGetAccess(req, dbFails) ==
  LET guard == requireAdmin(req, now)
      keys  == { k \in DOMAIN page_access : k[1] \in RoleIds /\ k[2] \in DOMAIN pages }
  IN /\ GatePasses(req)
     /\ resp' = IF guard # 0 THEN AdminResp("admin_matrix", req, guard, 0, FALSE, NoDetail)
                ELSE IF dbFails THEN AdminResp("admin_matrix", req, 500, 0, TRUE, NoDetail)
                ELSE AdminResp("admin_matrix", req, 200, 0, TRUE,
                               [rows |-> [k \in keys |-> page_access[k]]])
     /\ UNCHANGED <<users, nextId, reg, page_access, now, wallet, inflight, s3Client>>

\* PUT /api/admin/users/:id/role
AdminSetRole(req, id, role_id, dbFails) ==
  LET guard  == requireAdmin(req, now)
      detail == [role_id |-> role_id]
  IN /\ GatePasses(req)
     /\ IF guard # 0
          THEN /\ resp' = AdminResp("admin_role", req, guard, id, FALSE, detail)
               /\ UNCHANGED <<users, reg>>
        ELSE IF role_id \notin {1, 2, 3, 4}
          THEN /\ resp' = AdminResp("admin_role", req, 400, id, FALSE, detail)
               /\ UNCHANGED <<users, reg>>
        ELSE IF dbFails
          THEN /\ resp' = AdminResp("admin_role", req, 500, id, TRUE, detail)
               /\ UNCHANGED <<users, reg>>
        ELSE /\ users' = IF id \in DOMAIN users
                         THEN [users EXCEPT ![id].role_id = role_id] ELSE users
             /\ reg' = Touch(id)
             /\ resp' = AdminResp("admin_role", req, 200, id, TRUE, detail)
     /\ UNCHANGED <<nextId, page_access, now, wallet, inflight, s3Client>>

\* PUT /api/admin/users/:id/toggle
AdminToggle(req, id, dbFails) ==
  LET guard == requireAdmin(req, now)
  IN /\ GatePasses(req)
     /\ IF guard # 0
          THEN /\ resp' = AdminResp("admin_toggle", req, guard, id, FALSE, NoDetail)
               /\ UNCHANGED <<users, reg>>
        ELSE IF dbFails
          THEN /\ resp' = AdminResp("admin_toggle", req, 500, id, TRUE, NoDetail)
               /\ UNCHANGED <<users, reg>>
        ELSE /\ users' = IF id \in DOMAIN users
                         THEN [users EXCEPT ![id].is_active = ~ users[id].is_active]
                         ELSE users
             /\ reg' = Touch(id)
             /\ resp' = AdminResp("admin_toggle", req, 200, id, TRUE, NoDetail)
     /\ UNCHANGED <<nextId, page_access, now, wallet, inflight, s3Client>>

\* DeleteRows without the condition on the role
DeleteRows_AnyRole(us, id) == { i \in DOMAIN us : i = id }

\* the rows DELETE FROM users WHERE id = $1 AND role_id != 1 removes
DeleteRows(us, id) == { i \in DOMAIN us : i = id /\ us[i].role_id # 1 }

\* DELETE /api/admin/users/:id; detail.role_id (history): the stored role of
\* the row named by :id when the statement executes, 0 when there is none
AdminDelete(req, id, dbFails) ==
  LET guard  == requireAdmin(req, now)
      gone   == DeleteRows(users, id)
      detail == [role_id |-> IF id \in DOMAIN users THEN users[id].role_id ELSE 0]
  IN /\ GatePasses(req)
     /\ IF guard # 0
          THEN /\ resp' = AdminResp("admin_delete", req, guard, id, FALSE, NoDetail)
               /\ UNCHANGED <<users, reg>>
        ELSE IF dbFails
          THEN /\ resp' = AdminResp("admin_delete", req, 500, id, TRUE, NoDetail)
               /\ UNCHANGED <<users, reg>>
        ELSE /\ users' = [i \in DOMAIN users \ gone |-> users[i]]
             /\ reg' = [i \in DOMAIN reg \ gone |-> reg[i]]
             /\ resp' = AdminResp("admin_delete", req, 200, id, TRUE, detail)
     /\ UNCHANGED <<nextId, page_access, now, wallet, inflight, s3Client>>

\* UpdateAccess as an insert-or-update
UpdateAccess_Upsert(access, role_id, page_id, has_access) ==
  [k \in DOMAIN access \cup {<<role_id, page_id>>} |->
     IF k = <<role_id, page_id>> THEN has_access ELSE access[k]]

\* UPDATE page_access SET has_access = $3 WHERE role_id = $1 AND page_id = $2
UpdateAccess(access, role_id, page_id, has_access) ==
  [k \in DOMAIN access |-> IF k = <<role_id, page_id>> THEN has_access ELSE access[k]]

\* PUT /api/admin/access; detail.row (history): a row for the pair existed
\* when the statement executed
AdminSetAccess(req, role_id, page_id, has_access, dbFails) ==
  LET guard  == requireAdmin(req, now)
      detail == [role_id |-> role_id, page_id |-> page_id, has_access |-> has_access,
                 row |-> <<role_id, page_id>> \in DOMAIN page_access]
  IN /\ GatePasses(req)
     /\ IF guard # 0
          THEN /\ resp' = AdminResp("admin_access", req, guard, 0, FALSE, detail)
               /\ UNCHANGED page_access
        ELSE IF dbFails
          THEN /\ resp' = AdminResp("admin_access", req, 500, 0, TRUE, detail)
               /\ UNCHANGED page_access
        ELSE /\ page_access' = UpdateAccess(page_access, role_id, page_id, has_access)
             /\ resp' = AdminResp("admin_access", req, 200, 0, TRUE, detail)
     /\ UNCHANGED <<users, nextId, reg, now, wallet, inflight, s3Client>>

---------------------------------------------------------------------------
(* The stores as the specifications find them *)

\* the access matrix: the administrator sees every page, the seller (2) has
\* a granting row for sales and a denying row for tech, the candidate (4) has
\* rows for archetypes and methodology only
SeedAccess ==
  [k \in ({1} \X DOMAIN pages) \cup {<<2, 2>>, <<2, 7>>, <<4, 1>>, <<4, 8>>} |->
     k # <<2, 7>>]

AdminUser == UserRow(AdminName, bcryptHash(AdminPassword), 1)

NoTokens == [id \in AllIds |-> NullToken]

NoRequests == [s \in Slots |-> Idle]

TokenOf(us, id, clock) ==
  generateToken([id |-> id, username |-> us[id].username, role_id |-> us[id].role_id], clock)

\* admin, a seller and a candidate, each logged in on day 0
GateUsers ==
  ( 1 :> AdminUser ) @@ ( 2 :> UserRow(Bob, bcryptHash(Pass), 2) ) @@
  ( 3 :> UserRow(Amy, bcryptHash(Pass), 4) )

Init ==
  /\ users = GateUsers
  /\ nextId = 4
  /\ reg = [id \in DOMAIN GateUsers |->
              RegEntry(GateUsers[id].username, GateUsers[id].password.bcrypt, TRUE)]
  /\ page_access = SeedAccess
  /\ now = 0
  /\ wallet = [id \in AllIds |->
                 IF id \in DOMAIN GateUsers THEN TokenOf(GateUsers, id, 0) ELSE NullToken]
  /\ inflight = NoRequests
  /\ resp = NoResp
  /\ s3Client = FALSE

\* the paths the requests of the Gate's specification name
GatePaths ==
  { <<"index.html">>, <<"sales.html">>, <<"tech.html">>, <<"login.html">>,
    <<"styles.css">>, <<>>, <<"%74ech.html">>, <<"sales.html", "">>,
    <<"nope.html">>, <<"audio-url">>, <<"api", "auth", "login">> }

\* the paths asked for with a Cookie header
CookiePaths == { <<"sales.html">>, <<"styles.css">> }

HeldTokens == { wallet[id] : id \in AllIds } \ {NullToken}

\* the tokens a request can carry: the ones the clients hold, and strings
\* that are no token of this server
TokenInputs == HeldTokens \cup {EmptyToken, MalformedToken, ForgedToken}

NoAuth == [scheme |-> "none", token |-> NullToken]

AuthInputs ==
  { NoAuth, [scheme |-> "Basic", token |-> MalformedToken] }
  \cup { [scheme |-> "Bearer", token |-> t] : t \in TokenInputs }

CookieInputs ==
  { <<[name |-> "nwn_token", value |-> t]>> : t \in HeldTokens \cup {MalformedToken} }
  \cup { <<[name |-> "sid", value |-> MalformedToken], [name |-> "nwn_token", value |-> wallet[2]]>> }
  \cup { <<[name |-> "xnwn_token", value |-> x], [name |-> "nwn_token", value |-> wallet[2]]>> :
           x \in {EmptyToken, MalformedToken} }

GateRequests ==
  { [path |-> p, auth |-> a, cookie |-> <<>>] : p \in GatePaths, a \in AuthInputs }
  \cup
  { [path |-> p, auth |-> a, cookie |-> c] :
      p \in CookiePaths,
      a \in { NoAuth, [scheme |-> "Bearer", token |-> MalformedToken],
              [scheme |-> "Bearer", token |-> EmptyToken] },
      c \in CookieInputs }

AdminReq == BearerReq(AdminPath, wallet[1])

Next ==
  \/ \E req \in GateRequests, dbFails \in BOOLEAN : Gate(req, dbFails)
  \/ \E role_id \in {2, 4}, page_id \in {2, 7}, has_access \in BOOLEAN, dbFails \in BOOLEAN :
       AdminSetAccess(AdminReq, role_id, page_id, has_access, dbFails)
  \/ Tick

Spec == Init /\ [][Next]_vars

---------------------------------------------------------------------------
(* The specification of role changes: an administrator and one user who
   registered as bob; both log in, the administrator changes, deactivates
   and deletes the user, the user's tokens go through the Gate and whoami *)

InitRoles ==
  /\ users = ( 1 :> AdminUser ) @@ ( 2 :> UserRow(Bob, bcryptHash(Pass), DefaultRole) )
  /\ nextId = 3
  /\ reg = ( 1 :> RegEntry(AdminName, AdminPassword, TRUE) ) @@
           ( 2 :> RegEntry(Bob, Pass, FALSE) )
  /\ page_access = SeedAccess
  /\ now = 0
  /\ wallet = NoTokens
  /\ inflight = NoRequests
  /\ resp = NoResp
  /\ s3Client = FALSE

Credentials(username, password) == [username |-> username, password |-> password]

NextRoles ==
  \/ \E body \in { Credentials(AdminName, AdminPassword), Credentials(Bob, Pass) } :
       Login(body, FALSE, TRUE)
  \/ \E id \in {2, 3}, role_id \in {1, 2, 4, 5} : AdminSetRole(AdminReq, id, role_id, FALSE)
  \/ \E id \in {2, 3} : AdminToggle(AdminReq, id, FALSE)
  \/ \E id \in {2, 3} : AdminDelete(AdminReq, id, FALSE)
  \/ \E path \in { <<"sales.html">>, <<"tech.html">> }, token \in HeldTokens, dbFails \in BOOLEAN :
       Gate(BearerReq(path, token), dbFails)
  \/ \E token \in HeldTokens \cup {ForgedToken, EmptyToken}, dbFails \in BOOLEAN :
       MeStart("r1", BearerReq(MePath, token), dbFails)
  \/ \E dbFails \in BOOLEAN : MeFinish("r1", dbFails)
  \/ Tick

SpecRoles == InitRoles /\ [][NextRoles]_vars

---------------------------------------------------------------------------
(* The specification of registration: the administrator is logged in;
   clients register and log in, concurrently; the administrator
   deactivates and deletes users *)

InitRegister ==
  /\ users = ( 1 :> AdminUser )
  /\ nextId = 2
  /\ reg = ( 1 :> RegEntry(AdminName, AdminPassword, TRUE) )
  /\ page_access = SeedAccess
  /\ now = 0
  /\ wallet = [id \in AllIds |-> IF id = 1 THEN TokenOf(( 1 :> AdminUser ), 1, 0) ELSE NullToken]
  /\ inflight = NoRequests
  /\ resp = NoResp
  /\ s3Client = FALSE

Ab == <<"a", "b">>
BobCapital == <<"B", "o", "b">>
Zed == <<"z", "e", "d">>
Abc == <<"a", "b", "c">>
PassCapital == <<"P", "a", "s", "s">>

RegisterBodies ==
  { Credentials(u, Pass) : u \in {<<>>, Ab, Bob, BobCapital, Amy} }
  \cup { Credentials(Bob, Abc), Credentials(Bob, <<>>) }

LoginBodies ==
  { Credentials(u, p) : u \in {Bob, BobCapital, Amy, Zed}, p \in {Pass, PassCapital} }
  \cup { Credentials(<<>>, Pass), Credentials(Bob, <<>>) }

NextRegister ==
  \/ \E slot \in Slots, body \in RegisterBodies, dbFails \in BOOLEAN :
       RegisterStart(slot, body, dbFails)
  \/ \E slot \in Slots, dbFails \in BOOLEAN : RegisterInsert(slot, dbFails, FALSE)
  \/ \E body \in LoginBodies, dbFails \in BOOLEAN : Login(body, dbFails, FALSE)
  \/ \E id \in 2..MaxUsers : AdminToggle(AdminReq, id, FALSE)
  \/ \E id \in 2..MaxUsers : AdminDelete(AdminReq, id, FALSE)

SpecRegister == InitRegister /\ [][NextRegister]_vars

---------------------------------------------------------------------------
(* Properties of the Page-Access Gate, under Spec *)

\* a token signed by this server that has not expired on day at
TokenValid(token, at) == token.sig = "valid" /\ at < token.exp

\* the path has a registered policy slug
Slugged(urlPath) == urlPath \in DOMAIN FILE_TO_SLUG

\* the pages registered in FILE_TO_SLUG, as files of the static root
ProtectedFiles == { k[1] : k \in DOMAIN FILE_TO_SLUG }

\* the access matrix has a row with has_access = true for the role and slug
Granted(role_id, slug) ==
  \E k \in DOMAIN page_access :
    k[1] = role_id /\ k[2] \in DOMAIN pages /\ pages[k[2]] = slug /\ page_access[k]

\* C1: the file of a protected page is served only to a request for which
\* the Gate has obtained a valid token and then either a granting row for
\* (token.role_id, the page's slug) or a failure of the policy store; this for
\* every path express.static resolves to the file.
C1_ProtectedServedOnlyThroughGate ==
  (resp.op = "gate" /\ resp.served \in ProtectedFiles) =>
    /\ TokenValid(resp.gate.token, resp.at)
    /\ resp.gate.log = <<"getToken", "verifyToken", "query">>
    /\ \/ resp.dbFails
       \/ Granted(resp.gate.token.role_id, FILE_TO_SLUG[<<resp.served>>])

\* C2: a request to a slugged path whose token is valid and unexpired, for
\* which the store answers with no row or with has_access = false, is
\* answered 403: no redirect, no static content.
C2_NoGrantIsForbidden ==
  (/\ resp.op = "gate"
   /\ Slugged(resp.req.path)
   /\ TokenValid(getToken(resp.req), resp.at)
   /\ ~ resp.dbFails
   /\ ~ Granted(getToken(resp.req).role_id, FILE_TO_SLUG[resp.req.path]))
  => (resp.gate.outcome = "forbidden" /\ resp.served = NoFile)

\* the candidate (role 4, no row for tech) asks for /tech.html with a valid
\* token and is answered 403
C2_Witness ==
  /\ resp.op = "gate"
  /\ resp.req.path = <<"tech.html">>
  /\ TokenValid(getToken(resp.req), resp.at)
  /\ getToken(resp.req).role_id = 4
  /\ ~ resp.dbFails
  /\ \A k \in DOMAIN page_access : ~ (k[1] = 4 /\ pages[k[2]] = "tech")
  /\ resp.gate.outcome = "forbidden"

\* the request has no Bearer Authorization header
NoBearer(req) == req.auth.scheme # "Bearer"

\* C3: on a slugged path the Gate redirects to the login page, without a
\* query to the policy store, exactly when it extracts no token or the
\* extracted token fails verification; the token is the Bearer token when the
\* header is there and the cookie's only otherwise, so an invalid Bearer
\* token with a valid cookie token is redirected.
C3_RedirectIffNoValidToken ==
  (resp.op = "gate" /\ Slugged(resp.req.path)) =>
    /\ (resp.gate.outcome = "redirect") <=>
         (IsFalsy(resp.gate.token) \/ ~ TokenValid(resp.gate.token, resp.at))
    /\ (resp.gate.outcome = "redirect") =>
         (resp.gate.query = "none" /\ \A i \in 1..Len(resp.gate.log) : resp.gate.log[i] # "query")
    /\ ~ NoBearer(resp.req) => resp.gate.token = resp.req.auth.token
    /\ (NoBearer(resp.req) /\ resp.req.cookie = <<>>) => resp.gate.token = NullToken
    /\ (/\ NoBearer(resp.req)
        /\ Len(resp.req.cookie) = 1
        /\ resp.req.cookie[1].name = "nwn_token"
        /\ resp.req.cookie[1].value # EmptyToken)
         => resp.gate.token = resp.req.cookie[1].value
    /\ (/\ ~ NoBearer(resp.req)
        /\ ~ TokenValid(resp.req.auth.token, resp.at)
        /\ \E i \in 1..Len(resp.req.cookie) :
             resp.req.cookie[i].name = "nwn_token" /\ TokenValid(resp.req.cookie[i].value, resp.at))
         => resp.gate.outcome = "redirect"

\* an invalid Bearer token and a valid nwn_token cookie: redirected, the
\* store not asked
C3_Witness ==
  /\ resp.op = "gate"
  /\ resp.req.path = <<"sales.html">>
  /\ resp.req.auth = [scheme |-> "Bearer", token |-> MalformedToken]
  /\ Len(resp.req.cookie) = 1
  /\ resp.req.cookie[1].name = "nwn_token"
  /\ TokenValid(resp.req.cookie[1].value, resp.at)
  /\ resp.gate.outcome = "redirect"
  /\ resp.gate.query = "none"

\* the path is a public asset, an authentication-API path or has no slug
Ungated(urlPath) ==
  urlPath \in PUBLIC_PAGES \/ StartsWithApiAuth(urlPath) \/ urlPath \notin DOMAIN FILE_TO_SLUG

\* C4: a request to a public asset, to /api/auth/... or to a path without a
\* slug passes through whatever token it carries; the Gate verifies no token
\* and asks the store nothing.
C4_UngatedPassesThrough ==
  (resp.op = "gate" /\ Ungated(resp.req.path)) =>
    /\ resp.gate.outcome = "next"
    /\ resp.gate.log = <<>>
    /\ resp.gate.query = "none"
    /\ resp.served = StaticResolve(resp.req.path)

\* /styles.css passes through with a token that would not verify
C4_Witness ==
  /\ resp.op = "gate"
  /\ resp.req.path = <<"styles.css">>
  /\ resp.req.auth = [scheme |-> "Bearer", token |-> ForgedToken]
  /\ resp.gate.outcome = "next"
  /\ resp.served = "styles.css"

\* C5: a request to a slugged page with a valid token whose policy lookup
\* raises is passed through to the static content: no 403, no redirect.
C5_StoreFailurePassesThrough ==
  (/\ resp.op = "gate"
   /\ Slugged(resp.req.path)
   /\ TokenValid(getToken(resp.req), resp.at)
   /\ resp.dbFails)
  => (resp.gate.outcome = "next" /\ resp.served = StaticResolve(resp.req.path))

\* the candidate, who has no row for tech, is served /tech.html when the
\* lookup fails
C5_Witness ==
  /\ resp.op = "gate"
  /\ resp.req.path = <<"tech.html">>
  /\ TokenValid(getToken(resp.req), resp.at)
  /\ getToken(resp.req).role_id = 4
  /\ resp.dbFails
  /\ resp.served = "tech.html"

---------------------------------------------------------------------------
(* Properties of role changes, under SpecRoles *)

\* C6: every decision of the Gate is the one the user's role as stored at
\* the time of the request gives, also for a token issued before a change of
\* role (the statement of the claim; the Gate decides by the token's role_id).
C6_GateDecidesByStoredRole ==
  (/\ resp.op = "gate"
   /\ Slugged(resp.req.path)
   /\ resp.gate.query \in {"grant", "deny", "norow"}
   /\ resp.storedRole # 0)
  => ((resp.gate.outcome = "next")
        <=> Granted(resp.storedRole, FILE_TO_SLUG[resp.req.path]))

\* C7: whoami with a token of this server that has not expired, the store
\* answering, succeeds exactly when the user of the token's id is stored and
\* active when the handler looks the user up, and answers 401 otherwise; a
\* success carries the role_id stored at that lookup and that role's rows of
\* page_access, whatever role_id the token holds.
C7_WhoamiFollowsStoredUser ==
  (resp.op = "me" /\ TokenValid(resp.token, resp.at) /\ resp.status # 500) =>
    /\ (resp.status = 200) <=> resp.existsActive
    /\ ~ resp.existsActive => resp.status = 401
    /\ (resp.status = 200) =>
         /\ resp.role_id = resp.storedRole
         /\ resp.pages =
              { <<pages[k[2]], page_access[k]>> :
                  k \in { x \in DOMAIN page_access : x[1] = resp.storedRole } }

\* a token issued to the user as candidate (role 4) is answered with the
\* pages of the role the administrator has given the user since
C7_Witness ==
  /\ resp.op = "me"
  /\ resp.status = 200
  /\ resp.token.role_id = 4
  /\ resp.role_id = 2
  /\ <<"sales", TRUE>> \in resp.pages

---------------------------------------------------------------------------
(* Properties of registration and login, under SpecRegister *)

InvalidCredentials == ApiAnswer(401, "wrong_login_or_password", NullToken)

\* C8: a login with a non-empty username and password, the store answering,
\* gets one and the same answer (401, one error body, no token) when the
\* username is unknown, when the user is inactive and when the password is
\* wrong.
C8_LoginFailuresAlike ==
  (/\ resp.op = "login"
   /\ resp.body.username # <<>> /\ resp.body.password # <<>>
   /\ ~ resp.dbFails
   /\ resp.case \in {"unknown", "inactive", "wrong_password"})
  => resp.res = InvalidCredentials

\* an inactive user who gives the right password gets the answer of an
\* unknown user
C8_Witness ==
  /\ resp.op = "login"
  /\ resp.case = "inactive"
  /\ \E id \in DOMAIN users :
       /\ users[id].username = toLowerCase(resp.body.username)
       /\ bcryptCompare(resp.body.password, users[id].password)
  /\ resp.res = InvalidCredentials

UsernamesUnique ==
  \A a \in DOMAIN users, b \in DOMAIN users :
    a # b => toLowerCase(users[a].username) # toLowerCase(users[b].username)

C10_RegisterThenLogin ==
  /\ (/\ resp.op = "register"
      /\ Len(resp.body.username) >= MinUsername /\ Len(resp.body.password) >= MinPassword
      /\ ~ resp.dbFails /\ ~ resp.lookupTaken /\ ~ resp.insertTaken)
     => /\ resp.res.status = 200
        /\ resp.res.token.role_id = 4
        /\ TokenValid(resp.res.token, now)
        /\ resp.id \in DOMAIN users
        /\ resp.res.token.id = resp.id
        /\ users[resp.id].role_id = 4
        /\ users[resp.id].username = toLowerCase(resp.body.username)
  /\ (/\ resp.op = "login"
      /\ ~ resp.dbFails
      /\ \E id \in DOMAIN users :
           /\ ~ reg[id].touched
           /\ toLowerCase(reg[id].username) = toLowerCase(resp.body.username)
           /\ reg[id].password = resp.body.password)
     => /\ resp.res.status = 200
        /\ resp.res.token.role_id = 4
        /\ TokenValid(resp.res.token, now)
        /\ resp.res.token.id \in DOMAIN users
        /\ toLowerCase(reg[resp.res.token.id].username) = toLowerCase(resp.body.username)

\* a user who registered as "bob" logs in as "Bob" and gets a token with
\* role_id 4
C10_Witness ==
  /\ resp.op = "login"
  /\ resp.res.status = 200
  /\ resp.res.token.role_id = 4
  /\ resp.res.token.id \in DOMAIN users
  /\ ~ reg[resp.res.token.id].touched
  /\ reg[resp.res.token.id].username # resp.body.username

---------------------------------------------------------------------------
(* The Capability-URL Issuer: GET /audio-url of src/server.js, and the
   POST /audio-url of the earlier server src/unnamed/part_001.

   A filename is a tuple of one-character strings; a query or body value is
   a record [type, chars]: a string, undefined (the parameter is missing)
   or an array (filename=a&filename=b), whose chars are its first element. *)

\* parseInt(process.env.URL_EXPIRATION_SECONDS) || 600
URL_EXPIRATION_SECONDS == 600

\* process.env.R2_BUCKET_NAME || 'podcasts'
R2_BUCKET_NAME == "podcasts"

ALLOWED_EXTENSIONS ==
  { <<".","m","p","3">>, <<".","w","a","v">>, <<".","o","g","g">>, <<".","m","4","a">>,
    <<".","a","a","c">>, <<".","w","e","b","m">>, <<".","m","p","4">>, <<".","M","P","4">>,
    <<".","m","o","v">>, <<".","j","p","g">>, <<".","j","p","e","g">>, <<".","p","n","g">>,
    <<".","w","e","b","p">>, <<".","g","i","f">> }

\* the allow-list of the earlier server
ALLOWED_EXTENSIONS_part_001 ==
  { <<".","m","p","3">>, <<".","w","a","v">>, <<".","o","g","g">>, <<".","m","4","a">>,
    <<".","a","a","c">>, <<".","w","e","b","m">>, <<".","m","p","4">>, <<".","M","P","4">>,
    <<".","m","o","v">> }

Str(chars) == [type |-> "string", chars |-> chars]
UndefinedValue == [type |-> "undefined", chars |-> <<>>]
Arr(chars) == [type |-> "array", chars |-> chars]

\* !value
Falsy(value) == value.type = "undefined" \/ (value.type = "string" /\ value.chars = <<>>)

\* String.prototype.includes, for '..' and for '\\'
IncludesDotDot(s) == \E i \in 1..(Len(s) - 1) : s[i] = "." /\ s[i + 1] = "."
IncludesBackslash(s) == \E i \in 1..Len(s) : s[i] = "\\"

Largest(S) == CHOOSE i \in S : \A j \in S : j <= i

\* path.extname (posix): trailing slashes are dropped; the extension runs from
\* the last '.' of the last segment to its end; there is none when the
\* segment has no '.', starts with its only '.', or is '..'
extname(p) ==
  LET ends  == { i \in 1..Len(p) : p[i] # "/" }
      end   == IF ends = {} THEN 0 ELSE Largest(ends)
      seps  == { i \in 1..end : p[i] = "/" }
      start == IF seps = {} THEN 1 ELSE Largest(seps) + 1
      dots  == { i \in start..end : p[i] = "." }
      dot   == Largest(dots)
  IN IF dots = {} \/ dot = start \/ (end = start + 1 /\ dots = {start, end}) THEN <<>>
     ELSE SubSeq(p, dot, end)

isValidFilename(filename) ==
  /\ ~ Falsy(filename) /\ filename.type = "string"
  /\ ~ (IncludesDotDot(filename.chars) \/ IncludesBackslash(filename.chars))
  /\ toLowerCase(extname(filename.chars)) \in ALLOWED_EXTENSIONS

\* isValidFilename of the earlier server
isValidFilename_part_001(filename) ==
  /\ ~ Falsy(filename) /\ filename.type = "string"
  /\ ~ (IncludesDotDot(filename.chars) \/ IncludesBackslash(filename.chars))
  /\ toLowerCase(extname(filename.chars)) \in ALLOWED_EXTENSIONS_part_001

\* types[ext] || 'application/octet-stream'
getContentType(filename) ==
  LET ext == toLowerCase(extname(filename))
  IN CASE ext = <<".","m","p","3">> -> "audio/mpeg"
       [] ext = <<".","w","a","v">> -> "audio/wav"
       [] ext = <<".","o","g","g">> -> "audio/ogg"
       [] ext = <<".","m","4","a">> -> "audio/mp4"
       [] ext = <<".","a","a","c">> -> "audio/aac"
       [] ext = <<".","w","e","b","m">> -> "audio/webm"
       [] ext = <<".","m","p","4">> -> "video/mp4"
       [] ext = <<".","m","o","v">> -> "video/quicktime"
       [] ext \in { <<".","j","p","g">>, <<".","j","p","e","g">> } -> "image/jpeg"
       [] ext = <<".","p","n","g">> -> "image/png"
       [] ext = <<".","w","e","b","p">> -> "image/webp"
       [] ext = <<".","g","i","f">> -> "image/gif"
       [] OTHER -> "application/octet-stream"

\* the same of the earlier server: no image types
getContentType_part_001(filename) ==
  IF getContentType(filename) \in {"image/jpeg", "image/png", "image/webp", "image/gif"}
  THEN "application/octet-stream" ELSE getContentType(filename)

ALLOWED_BUCKETS == {R2_BUCKET_NAME, "nwn-storage"}

\* the bucket parameter used as given whenever there is one
SelectBucket_AsGiven(bucket) ==
  IF bucket \notin {Undefined, ""} THEN bucket ELSE R2_BUCKET_NAME

\* req.query.bucket && ALLOWED_BUCKETS.includes(req.query.bucket)
\*   ? req.query.bucket : R2_BUCKET_NAME
\* the parameter is a string, "" when empty, Undefined when missing
SelectBucket(bucket) ==
  IF bucket \notin {Undefined, ""} /\ bucket \in ALLOWED_BUCKETS THEN bucket ELSE R2_BUCKET_NAME

NoUrl == [bucket |-> "", key |-> <<>>, disposition |-> "", contentType |-> "", expiresIn |-> 0]

\* what getSignedUrl signs: the GetObjectCommand and the expiry
SignedUrl(bucket, key, contentType) ==
  [bucket |-> bucket, key |-> key, disposition |-> "inline", contentType |-> contentType,
   expiresIn |-> URL_EXPIRATION_SECONDS]

\* a response of the endpoint: fields are the names of the body's fields,
\* calls counts the calls of getSignedUrl (history)
AudioAnswer(status, error, fields, url, filename, calls) ==
  [status |-> status, error |-> error, fields |-> fields, url |-> url,
   expiresIn |-> IF status = 200 THEN URL_EXPIRATION_SECONDS ELSE 0,
   filename |-> filename, calls |-> calls]

\* the outcomes of await getSignedUrl(...)
Providers == {"signed", "NoSuchKey", "fault"}

\* from the call of getSignedUrl on, the catch included
SignAndAnswer(bucket, filename, contentType, provider, errorFields) ==
  CASE provider = "signed" ->
         AudioAnswer(200, "", {"success", "url", "expiresIn", "filename"},
                     SignedUrl(bucket, filename, contentType), filename, 1)
    [] provider = "NoSuchKey" ->
         AudioAnswer(404, "File not found", errorFields, NoUrl, <<>>, 1)
    [] OTHER ->
         AudioAnswer(500, "Internal server error", errorFields, NoUrl, <<>>, 1)

\* AudioUrlGet with the credentials check before the checks of the filename
AudioUrlGet_ConfigFirst(query, s3, provider) ==
  IF ~ s3
    THEN AudioAnswer(503, "Storage not configured", {"error"}, NoUrl, <<>>, 0)
  ELSE IF Falsy(query.filename)
    THEN AudioAnswer(400, "Missing filename", {"error"}, NoUrl, <<>>, 0)
  ELSE IF ~ isValidFilename(query.filename)
    THEN AudioAnswer(400, "Invalid filename", {"error"}, NoUrl, <<>>, 0)
  ELSE SignAndAnswer(SelectBucket(query.bucket), query.filename.chars,
                     getContentType(query.filename.chars), provider, {"error"})

\* app.get('/audio-url'); query = [filename, bucket]; s3: s3Client is set
AudioUrlGet(query, s3, provider) ==
  IF Falsy(query.filename)
    THEN AudioAnswer(400, "Missing filename", {"error"}, NoUrl, <<>>, 0)
  ELSE IF ~ isValidFilename(query.filename)
    THEN AudioAnswer(400, "Invalid filename", {"error"}, NoUrl, <<>>, 0)
  ELSE IF ~ s3
    THEN AudioAnswer(503, "Storage not configured", {"error"}, NoUrl, <<>>, 0)
  ELSE SignAndAnswer(SelectBucket(query.bucket), query.filename.chars,
                     getContentType(query.filename.chars), provider, {"error"})

\* app.post('/audio-url') of the earlier server; body = [filename]
AudioUrlPost_part_001(body, s3, provider) ==
  IF Falsy(body.filename)
    THEN AudioAnswer(400, "Missing filename", {"error", "message"}, NoUrl, <<>>, 0)
  ELSE IF ~ isValidFilename_part_001(body.filename)
    THEN AudioAnswer(400, "Invalid filename", {"error", "message"}, NoUrl, <<>>, 0)
  ELSE IF ~ s3
    THEN AudioAnswer(503, "Storage not configured", {"error", "message"}, NoUrl, <<>>, 0)
  ELSE SignAndAnswer(R2_BUCKET_NAME, body.filename.chars,
                     getContentType_part_001(body.filename.chars), provider,
                     {"error", "message"})

\* POST /audio-url sent to src/server.js, which registers app.get('/audio-url')
\* only: no route answers and Express's final handler sends 404
AudioUrlPost(body, s3, provider) ==
  AudioAnswer(404, "Cannot POST /audio-url", {}, NoUrl, <<>>, 0)

AudioPath == <<"audio-url">>

AudioResp(method, server, query, provider, res) ==
  [op |-> "audio", method |-> method, server |-> server, query |-> query,
   s3 |-> s3Client, provider |-> provider, res |-> res]

\* GET /audio-url?filename=...&bucket=...
GetAudioUrl(query, provider) ==
  /\ GatePasses(NoAuthReq(AudioPath))
  /\ resp' = AudioResp("GET", "server.js", query, provider,
                       AudioUrlGet(query, s3Client, provider))
  /\ UNCHANGED <<users, nextId, reg, page_access, now, wallet, inflight, s3Client>>

\* POST /audio-url with the filename in the body, sent to src/server.js
PostAudioUrl(query, provider) ==
  /\ GatePasses(NoAuthReq(AudioPath))
  /\ resp' = AudioResp("POST", "server.js", query, provider,
                       AudioUrlPost([filename |-> query.filename], s3Client, provider))
  /\ UNCHANGED <<users, nextId, reg, page_access, now, wallet, inflight, s3Client>>

\* POST /audio-url with the filename in the body, sent to the earlier server
\* (it mounts no Gate)
PostAudioUrl_part_001(query, provider) ==
  /\ resp' = AudioResp("POST", "part_001", query, provider,
                       AudioUrlPost_part_001([filename |-> query.filename], s3Client, provider))
  /\ UNCHANGED <<users, nextId, reg, page_access, now, wallet, inflight, s3Client>>

---------------------------------------------------------------------------
(* The specification of the Capability-URL Issuer: the server starts with or
   without the R2 credentials and answers requests for signed URLs *)

InitAudio ==
  /\ users = ( 1 :> AdminUser )
  /\ nextId = 2
  /\ reg = ( 1 :> RegEntry(AdminName, AdminPassword, TRUE) )
  /\ page_access = SeedAccess
  /\ now = 0
  /\ wallet = NoTokens
  /\ inflight = NoRequests
  /\ resp = NoResp
  /\ s3Client \in BOOLEAN

\* intro.mp3, intro.MP3, logo.png, notes.txt, ../a.mp3, a\b.mp3, ep/a.mp3,
\* .mp3, a.mp3/, mp3, the empty string
Filenames ==
  { <<"a",".","m","p","3">>, <<"a",".","M","P","3">>, <<"a",".","p","n","g">>,
    <<"a",".","t","x","t">>, <<".",".","/","a",".","m","p","3">>,
    <<"a","\\","b",".","m","p","3">>, <<"e","p","/","a",".","m","p","3">>,
    <<".","m","p","3">>, <<"a",".","m","p","3","/">>, <<"m","p","3">>, <<>> }

FilenameValues ==
  { Str(f) : f \in Filenames } \cup {UndefinedValue, Arr(<<"a",".","m","p","3">>)}

BucketParams == {Undefined, "", R2_BUCKET_NAME, "nwn-storage", "private"}

AudioQueries == [filename : FilenameValues, bucket : BucketParams]

NextAudio ==
  \/ \E query \in AudioQueries, provider \in Providers : GetAudioUrl(query, provider)
  \/ \E query \in AudioQueries, provider \in Providers : PostAudioUrl(query, provider)
  \/ \E query \in AudioQueries, provider \in Providers : PostAudioUrl_part_001(query, provider)

SpecAudio == InitAudio /\ [][NextAudio]_vars

---------------------------------------------------------------------------
(* Properties of the Capability-URL Issuer, under SpecAudio *)

\* the filename is empty, is not a string, contains '..' or a backslash, or
\* has a lower-cased extension outside the allow-list
InvalidInput(filename) ==
  \/ filename.type # "string"
  \/ filename.chars = <<>>
  \/ IncludesDotDot(filename.chars)
  \/ IncludesBackslash(filename.chars)
  \/ toLowerCase(extname(filename.chars)) \notin ALLOWED_EXTENSIONS

\* C11: GET /audio-url answers 400 and does not call the storage provider
\* for every filename that is empty, not a string, contains '..' or a
\* backslash, or whose lower-cased extension is not allowed, also when storage
\* is not configured; a valid filename with storage not configured is
\* answered 503, again with no provider call.
C11_InvalidFilenameBeforeCredentials ==
  (resp.op = "audio" /\ resp.method = "GET") =>
    /\ InvalidInput(resp.query.filename)
         => (resp.res.status = 400 /\ resp.res.calls = 0 /\ resp.res.url = NoUrl)
    /\ (~ InvalidInput(resp.query.filename) /\ ~ resp.s3)
         => (resp.res.status = 503 /\ resp.res.calls = 0 /\ resp.res.url = NoUrl)

\* ../a.mp3 is asked of a server with no R2 credentials and is answered 400
C11_Witness ==
  /\ resp.op = "audio" /\ resp.method = "GET"
  /\ resp.query.filename = Str(<<".",".","/","a",".","m","p","3">>)
  /\ ~ resp.s3
  /\ resp.res.status = 400
  /\ resp.res.calls = 0

\* C12: POST /audio-url with the filename in the body is answered as
\* GET /audio-url with the same filename in the query is, for every filename,
\* storage configuration and provider outcome: the same status and the same
\* body fields.
C12_PostSameContractAsGet ==
  (resp.op = "audio" /\ resp.method = "POST") =>
    LET get == AudioUrlGet(resp.query, resp.s3, resp.provider)
    IN /\ resp.res.status = get.status
       /\ resp.res.fields = get.fields

---------------------------------------------------------------------------
(* The specification of the admin API: the administrator, a seller and a
   candidate hold the tokens of their logins on day 0; requests to every
   admin route arrive with these tokens, with strings that are no token of
   this server, and with none; the tokens expire on day 30 *)

\* the administrator's and the seller's token in the Authorization header
\* or in the cookie, other strings, nothing
AdminRequests ==
  { [path |-> AdminPath, auth |-> a, cookie |-> <<>>] :
      a \in {NoAuth} \cup { [scheme |-> "Bearer", token |-> t] :
                              t \in {wallet[1], wallet[2], EmptyToken, MalformedToken,
                                     ForgedToken} } }
  \cup
  { [path |-> AdminPath, auth |-> NoAuth, cookie |-> <<[name |-> "nwn_token", value |-> t]>>] :
      t \in {wallet[1], wallet[2]} }

NextAdmin ==
  \/ \E req \in AdminRequests : AdminListUsers(req, FALSE)
  \/ \E req \in AdminRequests : AdminListRoles(req, FALSE)
  \/ \E req \in AdminRequests : AdminGetAccess(req, FALSE)
  \/ \E req \in AdminRequests, id \in {1, 2}, role_id \in {1, 4, 5}, dbFails \in BOOLEAN :
       AdminSetRole(req, id, role_id, dbFails)
  \/ \E req \in AdminRequests : AdminToggle(req, 2, FALSE)
  \/ \E req \in AdminRequests, id \in {1, 2}, dbFails \in BOOLEAN : AdminDelete(req, id, dbFails)
  \/ \E req \in AdminRequests, role_id \in {2, 4}, has_access \in BOOLEAN :
       AdminSetAccess(req, role_id, 7, has_access, FALSE)
  \/ Tick

SpecAdmin == Init /\ [][NextAdmin]_vars

---------------------------------------------------------------------------
(* Properties of the admin API, under SpecAdmin *)

AdminOps ==
  {"admin_users", "admin_role", "admin_toggle", "admin_delete", "admin_roles",
   "admin_matrix", "admin_access"}

\* the handler reaches its statement only with a verified token whose role_id
\* is 1; no token is answered 401, any other token 403
GuardedByAdminToken ==
  resp.op \in AdminOps =>
    LET token == getToken(resp.req)
        admin == TokenValid(token, resp.at) /\ token.role_id = 1
    IN /\ resp.ran => admin
       /\ IsFalsy(token) => (resp.status = 401 /\ ~ resp.ran)
       /\ (~ IsFalsy(token) /\ ~ admin) => (resp.status = 403 /\ ~ resp.ran)
       /\ admin => resp.status \notin {401, 403}

\* a step that answers 401 or 403 leaves users and the access matrix alone
RefusalChangesNothing ==
  (resp'.op \in AdminOps /\ resp'.status \in {401, 403}) =>
    (users' = users /\ page_access' = page_access)

\* C13: every admin operation (list users, change role, toggle active, delete
\* user, list roles, read and update the access matrix) runs its datastore
\* statement only for a request whose token verifies and has role_id 1; with
\* no token the answer is 401, with an invalid token or another role 403, and
\* then users and the access matrix are unchanged.
C13_AdminOnly == [] GuardedByAdminToken /\ [][RefusalChangesNothing]_vars

\* the seller's valid token asks for the deletion of the seller's own row
\* and is answered 403; the row is still there
C13_Witness ==
  /\ resp.op = "admin_delete"
  /\ TokenValid(getToken(resp.req), resp.at)
  /\ getToken(resp.req).role_id = 2
  /\ resp.status = 403
  /\ resp.id = 2 /\ 2 \in DOMAIN users

\* a delete statement that executes on a row whose stored role_id is 1
\* removes nothing, and the request is answered 200
DeleteSparesAdministrators ==
  (/\ resp'.op = "admin_delete" /\ resp'.ran /\ resp'.status # 500
   /\ resp'.id \in DOMAIN users /\ users[resp'.id].role_id = 1)
  => (users' = users /\ resp'.status = 200)

\* C14: whatever the order of admin delete and role-change requests, a
\* delete never removes a user whose stored role_id is 1 when the delete
\* statement executes: the users are unchanged and the answer is success.
C14_AdministratorsNotDeleted ==
  /\ [] ((resp.op = "admin_delete" /\ resp.status = 200 /\ resp.detail.role_id = 1)
           => (resp.id \in DOMAIN users /\ users[resp.id].role_id = 1))
  /\ [][DeleteSparesAdministrators]_vars

\* the seller has been given role 1; the request to delete the seller is
\* answered 200 and the seller is still stored
C14_Witness ==
  /\ resp.op = "admin_delete"
  /\ resp.status = 200
  /\ resp.id = 2
  /\ resp.detail.role_id = 1
  /\ 2 \in DOMAIN users

---------------------------------------------------------------------------
(* The specification of the Token Codec: the administrator and bob log in
   on any day, days pass, and the tokens they hold, with strings that are
   no token of this server, are verified, sent through the Gate, to whoami
   and to an admin route *)

\* the clock of this specification runs from 0 to MaxClock days, ClockStep
\* at a time
ClockStep == 10
MaxClock == 40

\* days pass
Days(n) ==
  /\ now + n <= MaxClock
  /\ now' = now + n
  /\ UNCHANGED <<users, nextId, reg, page_access, wallet, inflight, resp, s3Client>>

\* verifyToken(token), as every handler below calls it
Verify(token) ==
  /\ resp' = [op |-> "verify", token |-> token, at |-> now, result |-> verifyToken(token, now)]
  /\ UNCHANGED <<users, nextId, reg, page_access, now, wallet, inflight, s3Client>>

NextTokens ==
  \/ \E body \in { Credentials(AdminName, AdminPassword), Credentials(Bob, Pass) } :
       Login(body, FALSE, TRUE)
  \/ Days(ClockStep)
  \/ \E token \in TokenInputs : Verify(token)
  \/ \E token \in TokenInputs, dbFails \in BOOLEAN :
       Gate(BearerReq(<<"index.html">>, token), dbFails)
  \/ \E token \in TokenInputs : MeStart("r1", BearerReq(MePath, token), FALSE)
  \/ MeFinish("r1", FALSE)
  \/ \E token \in TokenInputs : AdminListRoles(BearerReq(AdminPath, token), FALSE)

SpecTokens == InitRoles /\ [][NextTokens]_vars

---------------------------------------------------------------------------
(* Properties of the Token Codec, under SpecTokens *)

\* the token was signed by this server and its expiry has elapsed on day at
Expired(token, at) == token.sig = "valid" /\ at >= token.exp

\* verifyToken gives the claims of the token before its expiry, and null
\* for an expired, forged, malformed or empty token
VerifyResult ==
  resp.op = "verify" =>
    /\ TokenValid(resp.token, resp.at)
         => /\ resp.result = [id |-> resp.token.id, username |-> resp.token.username,
                              role_id |-> resp.token.role_id]
            /\ resp.result # NullClaims
    /\ ~ TokenValid(resp.token, resp.at) => resp.result = NullClaims

\* an expired token is accepted by neither the Gate, whoami nor requireAdmin
ExpiredNeverAccepted ==
  /\ (resp.op = "gate" /\ Expired(getToken(resp.req), resp.at))
       => (resp.gate.outcome = "redirect" /\ resp.served = NoFile)
  /\ (resp.op = "me" /\ Expired(resp.token, resp.at)) => resp.status = 401
  /\ (resp.op \in AdminOps /\ Expired(getToken(resp.req), resp.at))
       => (resp.status = 403 /\ ~ resp.ran)

\* a login issues a token with the subject's id, username and role_id that
\* expires ExpiresIn days later
IssuedForThirtyDays ==
  (resp' # resp /\ resp'.op = "login" /\ resp'.res.status = 200) =>
    LET token == resp'.res.token
    IN /\ token.sig = "valid"
       /\ token.exp = now + ExpiresIn
       /\ token.id \in DOMAIN users
       /\ token.username = users[token.id].username
       /\ token.role_id = users[token.id].role_id

\* C15: verify returns the subject's claims {id, username, role_id} for a
\* token issued by issue and verified before its expiry, 30 days after
\* issuance, and null for a token whose expiry has elapsed, for a wrong
\* signature and for malformed input; so once a token's expiry has elapsed
\* the Gate, whoami and the admin guard never accept it.
C15_VerifyUntilExpiry ==
  /\ [] (VerifyResult /\ ExpiredNeverAccepted)
  /\ [][IssuedForThirtyDays]_vars

\* a token of this server is sent to a protected page on the day of its
\* expiry or later and the Gate redirects to the login page
C15_Witness ==
  /\ resp.op = "gate"
  /\ Expired(getToken(resp.req), resp.at)
  /\ resp.at = getToken(resp.req).exp
  /\ resp.gate.outcome = "redirect"

\* C16: the bucket of every signed URL that GET /audio-url issues is the
\* default bucket or 'nwn-storage': a bucket parameter in this allow-list is
\* used as given, and with a missing or unknown bucket parameter the request
\* is answered as without one, with a URL for the default bucket.
C16_BucketFromAllowList ==
  (resp.op = "audio" /\ resp.method = "GET") =>
    LET given   == resp.query.bucket
        signing == ~ InvalidInput(resp.query.filename) /\ resp.s3 /\ resp.provider = "signed"
    IN /\ resp.res.url # NoUrl <=> resp.res.status = 200
       /\ resp.res.status = 200 => resp.res.url.bucket \in {R2_BUCKET_NAME, "nwn-storage"}
       /\ signing => resp.res.status = 200
       /\ (signing /\ given \in {R2_BUCKET_NAME, "nwn-storage"}) => resp.res.url.bucket = given
       /\ (signing /\ given \notin {R2_BUCKET_NAME, "nwn-storage"})
            => resp.res.url.bucket = R2_BUCKET_NAME
       /\ given \notin {R2_BUCKET_NAME, "nwn-storage"}
            => resp.res = AudioUrlGet([resp.query EXCEPT !.bucket = Undefined],
                                      resp.s3, resp.provider)

\* a URL is asked for bucket 'private' and is issued for the default bucket
C16_Witness ==
  /\ resp.op = "audio" /\ resp.method = "GET"
  /\ resp.query.bucket = "private"
  /\ resp.res.status = 200
  /\ resp.res.url.bucket = R2_BUCKET_NAME

---------------------------------------------------------------------------
(* Properties of the access matrix, under Spec *)

\* a step changes the matrix only by an accepted PUT /api/admin/access, and
\* then only the has_access value of the row the request names, to the value
\* the request gives; no row appears or disappears
OnlyTheNamedRow ==
  /\ DOMAIN page_access' = DOMAIN page_access
  /\ resp'.op # "admin_access" => page_access' = page_access
  /\ resp'.op = "admin_access" =>
       LET key == <<resp'.detail.role_id, resp'.detail.page_id>>
       IN /\ \A k \in DOMAIN page_access : k # key => page_access'[k] = page_access[k]
          /\ resp'.status # 200 => page_access' = page_access
          /\ (resp'.status = 200 /\ key \in DOMAIN page_access)
               => page_access'[key] = resp'.detail.has_access
          /\ key \notin DOMAIN page_access => page_access' = page_access

\* C17: an accepted PUT /api/admin/access changes at most the has_access
\* value of the one existing row (role_id, page_id) and never creates a row:
\* with no row for the pair the answer is success, the matrix is unchanged and
\* the Gate keeps answering forbidden for that role and page; an existing row
\* holds the value of the update whose statement executed last.
C17_AccessUpdateTouchesOneRow ==
  /\ [][OnlyTheNamedRow]_vars
  /\ [] (DOMAIN page_access = DOMAIN SeedAccess)
  /\ [] ((resp.op = "admin_access" /\ resp.ran /\ resp.status # 500 /\ ~ resp.detail.row)
           => /\ resp.status = 200
              /\ <<resp.detail.role_id, resp.detail.page_id>> \notin DOMAIN page_access)
  /\ [] ((resp.op = "admin_access" /\ resp.status = 200 /\ resp.detail.row)
           => page_access[<<resp.detail.role_id, resp.detail.page_id>>] = resp.detail.has_access)
  /\ [] ((/\ resp.op = "gate" /\ resp.req.path = <<"tech.html">> /\ ~ resp.dbFails
          /\ TokenValid(getToken(resp.req), resp.at) /\ getToken(resp.req).role_id = 4)
           => resp.gate.outcome = "forbidden")

\* access to tech (page 7) is granted to the candidate (role 4), for whom
\* the matrix has no row for that page: the answer is success and there is
\* still no row
C17_Witness ==
  /\ resp.op = "admin_access"
  /\ resp.status = 200
  /\ resp.detail.role_id = 4 /\ resp.detail.page_id = 7 /\ resp.detail.has_access
  /\ ~ resp.detail.row
  /\ <<4, 7>> \notin DOMAIN page_access

=============================================================================
